---------------------------- MODULE Spec2Model ----------------------------
(***************************************************************************)
(* Model of the YandexGPT -> OpenAI translation gateway (src/app.py,       *)
(* src/utils/misc.py, src/utils/tokens.py).                                *)
(*                                                                         *)
(* The server handles one inbound request at a time in this model.  The    *)
(* configuration (BYOK, tokens) is fixed at start-up; the image store      *)
(* (data/images) persists across requests.  Strings that the code splits   *)
(* or slices are sequences of one-character strings.  Python's None is     *)
(* the value None below.                                                   *)
(***************************************************************************)
EXTENDS Integers, Sequences, FiniteSets, TLC

VARIABLES
    BYOK,           \* app.py:25-26   bring-your-own-key mode
    tokens,         \* app.py:39      registry: token -> user id
    pc,             \* position of the request task
    req,            \* the inbound request being served
    creds,          \* get_creds' result for the request
    resp,           \* the response given to the caller
    upstream,       \* upstream HTTP requests issued for this request
    lookups,        \* registry lookups made for this request
    images,         \* files in data/images
    timers,         \* misc.py:372   deletions scheduled on the event loop
    tasks,          \* the delete_image tasks that ran, and how each ended
    issued,         \* operations the upstream has created so far
    storeOps,       \* reads and writes of data/images for this request
    sent,           \* what the upstream answered: the frames of a stream, in
                    \* order, or the alternatives of a non-streamed answer
    wire,           \* bytes sent by the upstream, not yet delivered
    str_index,      \* app.py:171     the stream cursor
    parsed,         \* frames json.loads returned, in order
    emitted,        \* chunks yielded to the caller, in order
    i,              \* app.py:361     poll attempts
    response_data,  \* app.py:359     last result of image_generation_check
    pollLog,        \* what the upstream answered to each status poll
    sleeps,         \* asyncio.sleep(1) calls completed
    operation_id    \* app.py:358     the submitted job

vars == <<BYOK, tokens, pc, req, creds, resp, upstream, lookups, images,
          timers, tasks, issued, storeOps, sent, wire, str_index, parsed, emitted,
          i, response_data, pollLog, sleeps, operation_id>>

streamVars == <<sent, wire, str_index, parsed, emitted>>
pollVars == <<i, response_data, pollLog, sleeps, operation_id>>

-----------------------------------------------------------------------------
(* Bounds *)

MaxTokenLen == 3
MaxFrames == 2
MaxText == 1
MaxTimeout == 3
MaxAlternatives == 2
MaxMessages == 2
MaxEmbeddings == 2
MaxToolCalls == 2
TickSeconds == 1800

\* misc.py:372: the retention window of a stored image, in seconds.
RetentionSeconds == 3600

-----------------------------------------------------------------------------
(* Values *)

None == <<"None">>

Range(s) == {s[n] : n \in 1..Len(s)}

SeqsUpTo(S, n) == UNION {[1..m -> S] : m \in 0..n}

RECURSIVE Split(_, _)
Split(s, sep) ==
    IF sep \notin Range(s) THEN <<s>>
    ELSE LET k == CHOOSE n \in 1..Len(s) :
                     s[n] = sep /\ \A m \in 1..(n - 1) : s[m] # sep
         IN <<SubSeq(s, 1, k - 1)>> \o Split(SubSeq(s, k + 1, Len(s)), sep)

RECURSIVE Concat(_)
Concat(ss) == IF ss = <<>> THEN <<>> ELSE Head(ss) \o Concat(Tail(ss))

IsPrefix(s, t) == Len(s) <= Len(t) /\ SubSeq(t, 1, Len(s)) = s

-----------------------------------------------------------------------------
(* Configuration *)

CATALOGID == <<"C">>
SECRETKEY == <<"S">>

TokenChars == {"a", "k", ":"}
Tokens == SeqsUpTo(TokenChars, MaxTokenLen) \ {<<>>}

\* data/tokens.json as (id, token) pairs in file order.
TokensFiles ==
    { <<>>,
      << [id |-> <<"1">>, token |-> <<"a", "a">>],
         [id |-> <<"2">>, token |-> <<"a", ":", "k">>] >> }

\* tokens.py:21: a later entry with the same token replaces an earlier one.
get_tokens(tokens_json) ==
    [t \in {tokens_json[n].token : n \in 1..Len(tokens_json)} |->
        LET last == CHOOSE n \in 1..Len(tokens_json) :
                        /\ tokens_json[n].token = t
                        /\ \A m \in (n + 1)..Len(tokens_json) :
                               tokens_json[m].token # t
        IN tokens_json[last].id]

-----------------------------------------------------------------------------
(* Credential resolver *)

NoByok == [set |-> FALSE, catalogid |-> None, secretkey |-> None]

AuthOk(user_id, byok, n) ==
    [outcome |-> "ok", user_id |-> user_id, byok |-> byok, lookups |-> n]
AuthFail(outcome, n) ==
    [outcome |-> outcome, user_id |-> None, byok |-> NoByok, lookups |-> n]

\* app.py:67-94, with the two parts of the token taken in the other order.
authenticate_user_swapped(token) ==
    IF token = None THEN AuthFail("401", 0)
    ELSE IF BYOK /\ ":" \in Range(token) THEN
        LET parts == Split(token, ":") IN
        IF Len(parts) # 2 THEN AuthFail("500", 0)
        ELSE AuthOk(None, [set |-> TRUE, catalogid |-> parts[2],
                           secretkey |-> parts[1]], 0)
    ELSE IF Cardinality(DOMAIN tokens) > 0 THEN
        IF token \in DOMAIN tokens THEN AuthOk(tokens[token], NoByok, 1)
        ELSE AuthFail("401", 1)
    ELSE AuthFail("401", 0)

\* app.py:67-94.  token is what the OAuth2 bearer scheme hands over; a
\* request without an Authorization header is answered 401 by the scheme.
authenticate_user(token) ==
    IF token = None THEN AuthFail("401", 0)
    ELSE IF BYOK /\ ":" \in Range(token) THEN
        LET parts == Split(token, ":") IN
        IF Len(parts) # 2 THEN AuthFail("500", 0)
        ELSE AuthOk(None, [set |-> TRUE, catalogid |-> parts[1],
                           secretkey |-> parts[2]], 0)
    ELSE IF Cardinality(DOMAIN tokens) > 0 THEN
        IF token \in DOMAIN tokens THEN AuthOk(tokens[token], NoByok, 1)
        ELSE AuthFail("401", 1)
    ELSE AuthFail("401", 0)

\* Python truthiness of a user id: a non-empty string.
Truthy(s) == s # None /\ s # <<>>

\* app.py:96-107, without the substitution of lines 105-106.
get_creds_no_substitution(auth) ==
    LET c1 == IF auth.byok.set /\ BYOK
              THEN [catalogid |-> auth.byok.catalogid,
                    secretkey |-> auth.byok.secretkey, user_id |-> None]
              ELSE [catalogid |-> None, secretkey |-> None, user_id |-> None]
    IN IF Truthy(auth.user_id)
       THEN [c1 EXCEPT !.user_id = auth.user_id]
       ELSE c1

get_creds(auth) ==
    LET c1 == IF auth.byok.set /\ BYOK
              THEN [catalogid |-> auth.byok.catalogid,
                    secretkey |-> auth.byok.secretkey, user_id |-> None]
              ELSE [catalogid |-> None, secretkey |-> None, user_id |-> None]
    IN IF Truthy(auth.user_id)
       THEN [catalogid |-> CATALOGID, secretkey |-> SECRETKEY,
             user_id |-> auth.user_id]
       ELSE c1

NoCreds == [catalogid |-> None, secretkey |-> None, user_id |-> None]


-----------------------------------------------------------------------------
(* Finish reasons: misc.py:138-161 *)

PyNone == "None"

MappedStatuses ==
    { "ALTERNATIVE_STATUS_FINAL", "ALTERNATIVE_STATUS_TRUNCATED_FINAL",
      "ALTERNATIVE_STATUS_CONTENT_FILTER", "ALTERNATIVE_STATUS_PARTIAL",
      "ALTERNATIVE_STATUS_UNSPECIFIED", "ALTERNATIVE_STATUS_TOOL_CALLS" }

\* A status the upstream could send that the table does not list.
UnmappedStatuses == { "ALTERNATIVE_STATUS_NEW" }

Statuses == MappedStatuses \cup UnmappedStatuses

finish_reasons ==
    [s \in MappedStatuses |->
        CASE s = "ALTERNATIVE_STATUS_FINAL" -> "stop"
          [] s = "ALTERNATIVE_STATUS_TRUNCATED_FINAL" -> "length"
          [] s = "ALTERNATIVE_STATUS_CONTENT_FILTER" -> "content_filter"
          [] s = "ALTERNATIVE_STATUS_PARTIAL" -> PyNone
          [] s = "ALTERNATIVE_STATUS_UNSPECIFIED" -> "unknown"
          [] s = "ALTERNATIVE_STATUS_TOOL_CALLS" -> "tool_calls"]

Raised(what) == [ok |-> FALSE, val |-> what]
Returned(v) == [ok |-> TRUE, val |-> v]

\* misc.py:156 as a lookup with a default, finish_reasons.get(..., "stop").
finish_reason_translation_default(finish_reason) ==
    IF finish_reason \in DOMAIN finish_reasons
    THEN Returned(finish_reasons[finish_reason])
    ELSE Returned("stop")

finish_reason_translation(finish_reason) ==
    IF finish_reason \in DOMAIN finish_reasons
    THEN Returned(finish_reasons[finish_reason])
    ELSE Raised("Error in finish_reason_translation")

-----------------------------------------------------------------------------
(* The upstream's streamed frames and their bytes on the wire.             *)
(* A frame is one JSON object {"result": {"alternatives": [{"message":      *)
(* {"role", "text"}, "status"}], ...}}.  On the wire it is a head (the      *)
(* JSON syntax before the text, carrying status and role), the UTF-8       *)
(* bytes of the text, and a tail (the syntax after it).  A cut anywhere    *)
(* inside the head or the tail leaves two pieces that json.loads rejects,  *)
(* as a cut right after the head or right before the tail does.            *)

TextChars == {"a", "zh"}          \* "zh": a Cyrillic letter, two bytes in UTF-8
StreamStatuses ==
    { "ALTERNATIVE_STATUS_PARTIAL", "ALTERNATIVE_STATUS_FINAL",
      "ALTERNATIVE_STATUS_NEW" }
Roles == {"assistant"}

Texts == SeqsUpTo(TextChars, MaxText)
Frames == [status : StreamStatuses, role : Roles, text : Texts]

HeadByte(status, role) == [k |-> "head", v |-> status, r |-> role]
TextByte(b) == [k |-> "text", v |-> b, r |-> ""]
TailByte == [k |-> "tail", v |-> "", r |-> ""]

Utf8Char(c) == IF c = "a" THEN <<TextByte("61")>>
               ELSE <<TextByte("D0"), TextByte("B6")>>

RECURSIVE Utf8Encode(_)
Utf8Encode(text) ==
    IF text = <<>> THEN <<>> ELSE Utf8Char(Head(text)) \o Utf8Encode(Tail(text))

Encode(frame) ==
    <<HeadByte(frame.status, frame.role)>> \o Utf8Encode(frame.text) \o <<TailByte>>

\* chunk.decode('utf-8'), app.py:174: the characters, or UnicodeDecodeError.
RECURSIVE Utf8Decode(_)
Utf8Decode(bytes) ==
    IF bytes = <<>> THEN Returned(<<>>)
    ELSE LET b == Head(bytes) IN
         IF b.k # "text" \/ b.v = "61" THEN
            LET rest == Utf8Decode(Tail(bytes)) IN
            IF rest.ok
            THEN Returned(<<IF b.k = "text" THEN TextByte("a") ELSE b>> \o rest.val)
            ELSE rest
         ELSE IF b.v = "D0" /\ Len(bytes) >= 2 /\ bytes[2] = TextByte("B6") THEN
            LET rest == Utf8Decode(Tail(Tail(bytes))) IN
            IF rest.ok THEN Returned(<<TextByte("zh")>> \o rest.val) ELSE rest
         ELSE Raised(<<>>)

\* json.loads, app.py:176: the frame, or JSONDecodeError.
json_loads(chars) ==
    IF /\ Len(chars) >= 2
       /\ chars[1].k = "head"
       /\ chars[Len(chars)].k = "tail"
       /\ \A n \in 2..(Len(chars) - 1) : chars[n].k = "text"
    THEN Returned([status |-> chars[1].v, role |-> chars[1].r,
                   text |-> [n \in 1..(Len(chars) - 2) |-> chars[n + 1].v]])
    ELSE Raised([status |-> "", role |-> "", text |-> <<>>])

\* app.py:177 with the cursor ignored.
DeltaTextFromStart(text, idx) == text
\* app.py:177 with a slice that is not clamped to the text: a start beyond
\* the end yields a character that is not new.
DeltaTextUnclamped(text, idx) ==
    IF idx > Len(text) THEN <<"a">> ELSE SubSeq(text, idx + 1, Len(text))
\* app.py:177: text[str_index:]
DeltaText(text, idx) == SubSeq(text, idx + 1, Len(text))

\* app.py:178
NextStrIndex(text, idx) == Len(text)

\* hashlib.md5(s.encode()).hexdigest(): a digest of the string, one per
\* string for the strings of the model.
md5(s) == <<"md5", s>>

\* misc.py:222, 273: the hash part of the identifiers.  user_id is the
\* third value of get_creds: the registry's user id, None for a BYOK caller.
userhash(user_id) == IF Truthy(user_id) THEN md5(user_id) ELSE <<"none">>

\* misc.py:224, 276: f"y2o-{userhash}{current_time}"
response_id(user_id) == <<"y2o-", userhash(user_id), "current_time">>
\* misc.py:234, 281: f"fp_{userhash}"
system_fingerprint(user_id) == <<"fp_", userhash(user_id)>>

\* misc.py:255-283: the chunk for one frame, or the exception.
chat_completion_chunk_translation(chunk, deltatext, user_id) ==
    LET fr == finish_reason_translation(chunk.status) IN
    IF fr.ok
    THEN Returned([delta |-> [content |-> deltatext, role |-> chunk.role],
                   finish_reason |-> fr.val,
                   id |-> response_id(user_id),
                   system_fingerprint |-> system_fingerprint(user_id)])
    ELSE Raised([delta |-> [content |-> <<>>, role |-> ""],
                 finish_reason |-> fr.val,
                 id |-> <<>>, system_fingerprint |-> <<>>])

-----------------------------------------------------------------------------
(* The body of a chat request: misc.py:51-136.  A key of a JSON object is  *)
(* absent, null, or has a value.                                           *)

Absent == "<absent>"
Null == "<null>"

\* The tools of a request, as the OpenAI dialect writes them.
WeatherTool ==
    [type |-> "function", name |-> "weather_request",
     description |-> "Get weather information for a city",
     parameters |-> "{query}"]
PlainTool ==
    [type |-> "function", name |-> "plain", description |-> Absent,
     parameters |-> "{}"]
RetrievalTool ==
    [type |-> "retrieval", name |-> Absent, description |-> Absent,
     parameters |-> Absent]

ToolLists == { <<>>, <<WeatherTool>>, <<RetrievalTool, WeatherTool, PlainTool>> }

\* misc.py:51-73
tools_translation(tools) ==
    LET functions == SelectSeq(tools, LAMBDA tool : tool.type = "function") IN
    [n \in 1..Len(functions) |->
        [name |-> functions[n].name,
         description |-> IF functions[n].description = Absent THEN ""
                         ELSE functions[n].description,
         parameters |-> functions[n].parameters]]

\* The messages of a request.
NoToolCalls == [present |-> FALSE, calls |-> <<>>]
NoFunctionCall == [present |-> FALSE, name |-> "", arguments |-> ""]

MessageRoles == {"user", "assistant"}
MessageContents == {Absent, Null, "hi"}
MessageToolCalls ==
    { NoToolCalls,
      [present |-> TRUE,
       calls |-> <<[name |-> "weather_request", arguments |-> "{London}"]>>] }
MessageFunctionCalls ==
    { NoFunctionCall,
      [present |-> TRUE, name |-> "legacy_request", arguments |-> "{Paris}"] }
MessageFunctionNames == {Absent, "weather_request"}

Messages ==
    [role : MessageRoles, content : MessageContents,
     tool_calls : MessageToolCalls, function_call : MessageFunctionCalls,
     function_name : MessageFunctionNames]

MessageLists == SeqsUpTo(Messages, MaxMessages)

NoToolCallList == [present |-> FALSE, toolCalls |-> <<>>]
NoToolResultList == [present |-> FALSE, name |-> "", content |-> ""]

\* misc.py:95-117 with the legacy function_call taken first and tool_calls
\* only without it.
toolCallList_legacy_first(message) ==
    IF message.function_call.present
    THEN [present |-> TRUE,
          toolCalls |-> <<[name |-> message.function_call.name,
                           arguments |-> message.function_call.arguments]>>]
    ELSE IF message.tool_calls.present
    THEN [present |-> TRUE, toolCalls |-> message.tool_calls.calls]
    ELSE NoToolCallList

\* misc.py:95-117: tool_calls, or else the legacy function_call.
toolCallList(message) ==
    IF message.tool_calls.present
    THEN [present |-> TRUE, toolCalls |-> message.tool_calls.calls]
    ELSE IF message.function_call.present
    THEN [present |-> TRUE,
          toolCalls |-> <<[name |-> message.function_call.name,
                           arguments |-> message.function_call.arguments]>>]
    ELSE NoToolCallList

\* misc.py:86-128: the new_message of one message.
message_translation(message) ==
    [role |-> message.role,
     text |-> IF message.content \notin {Absent, Null} THEN message.content
              ELSE Absent,
     toolCallList |-> toolCallList(message),
     toolResultList |->
        IF message.function_name # Absent /\ message.content # Absent
        THEN [present |-> TRUE, name |-> message.function_name,
              content |-> message.content]
        ELSE NoToolResultList]

\* misc.py:75-136
messages_translation(messages) ==
    [n \in 1..Len(messages) |-> message_translation(messages[n])]

UserSaysHi ==
    [role |-> "user", content |-> "hi", tool_calls |-> NoToolCalls,
     function_call |-> NoFunctionCall, function_name |-> Absent]

\* The body every caller of the whole server sends.
SampleMessageLists == { <<UserSaysHi>> }
SampleToolLists == { <<WeatherTool>> }

-----------------------------------------------------------------------------
(* Requests and responses *)

Endpoints == {"chat", "embeddings", "images_generations", "images_get",
              "models", "health"}
Protected == {"chat", "embeddings", "images_generations", "images_get"}

Req(endpoint, token) ==
    [endpoint |-> endpoint, token |-> token, stream |-> FALSE,
     timeout |-> 0, b64 |-> FALSE, image_id |-> None, size |-> <<>>,
     messages |-> <<>>, tools |-> <<>>]
NoReq == Req("none", None)

Resp(status, kind, detail) ==
    [status |-> status, kind |-> kind, detail |-> detail, n |-> 0,
     id |-> <<>>, system_fingerprint |-> <<>>, tool_calls |-> <<>>]
NoResp == Resp(0, "none", <<>>)

\* What the caller gets when the dependency authenticate_user fails:
\* HTTPException(401), or 500 for an exception it does not handle.
AuthFailure(a) ==
    IF a.outcome = "401" THEN Resp(401, "error", <<"Invalid token">>)
    ELSE Resp(500, "error", <<"Internal Server Error">>)

\* A request to the upstream, with what the upstream answered to it: the
\* HTTP status, and whether the body of a 200 answer has an "error" field.
UpstreamCall(kind, c) ==
    [kind |-> kind, catalogid |-> c.catalogid, secretkey |-> c.secretkey,
     arg |-> <<>>, messages |-> <<>>, tools |-> <<>>,
     status |-> 200, error |-> FALSE]

\* app.py:155-163, 200-208: the body of a completion request has modelUri,
\* completionOptions and messages.  ChatCompletions (app.py:126-131) has no
\* tools field, so the tools of the inbound body are not in the handler's
\* hands and the body sent upstream has no tools.
CompletionCall(kind, c, r) ==
    [UpstreamCall(kind, c) EXCEPT !.messages = messages_translation(r.messages)]

Answered(call, st, err) ==
    [call EXCEPT !.status = st, !.error = (st = 200 /\ err)]

\* Statuses the upstream answers with: 200, or some other one.
UpstreamStatuses == {200, 429}

StreamInit ==
    /\ sent = <<>>
    /\ wire = <<>>
    /\ str_index = 0
    /\ parsed = <<>>
    /\ emitted = <<>>

NoData == [set |-> FALSE, image |-> "", id |-> ""]

PollInit ==
    /\ i = 0
    /\ response_data = NoData
    /\ pollLog = <<>>
    /\ sleeps = 0
    /\ operation_id = ""

Init ==
    /\ BYOK \in BOOLEAN
    /\ tokens \in {get_tokens(f) : f \in TokensFiles}
    /\ pc = "idle"
    /\ req = NoReq
    /\ creds = NoCreds
    /\ resp = NoResp
    /\ upstream = <<>>
    /\ lookups = 0
    /\ images = <<>>
    /\ timers = <<>>
    /\ tasks = {}
    /\ issued = 0
    /\ storeOps = 0
    /\ StreamInit
    /\ PollInit

\* The dependency failed: the handler's body never runs.
Rejected(r, a) ==
    /\ a.outcome # "ok"
    /\ req' = r
    /\ lookups' = a.lookups
    /\ resp' = AuthFailure(a)
    /\ pc' = "responded"
    /\ UNCHANGED <<BYOK, tokens, timers, tasks, issued, creds, upstream, images, storeOps,
                   streamVars, pollVars>>

-----------------------------------------------------------------------------
(* GET /v1/health, GET /v1/models: app.py:388-406 *)

health_check ==
    /\ pc = "idle"
    /\ req' = Req("health", None)
    /\ resp' = Resp(200, "health", <<"ok">>)
    /\ pc' = "responded"
    /\ UNCHANGED <<BYOK, tokens, timers, tasks, issued, creds, upstream, lookups, images, storeOps,
                   streamVars, pollVars>>

models_list ==
    /\ pc = "idle"
    /\ req' = Req("models", None)
    /\ resp' = Resp(200, "models", <<"list">>)
    /\ pc' = "responded"
    /\ UNCHANGED <<BYOK, tokens, timers, tasks, issued, creds, upstream, lookups, images, storeOps,
                   streamVars, pollVars>>

-----------------------------------------------------------------------------
(* POST /v1/chat/completions: app.py:133-222 *)

\* A JSON value as Python has it after response.json(): its type and, for
\* a str, its characters; for the other types, which value it is.
London == [type |-> "dict", v |-> "query=London"]
EmptyObject == [type |-> "dict", v |-> ""]
Encoded == [type |-> "str", v |-> "{\"query\":\"London\"}"]
LondonList == [type |-> "list", v |-> "London"]
JsonNull == [type |-> "NoneType", v |-> ""]

\* The arguments of a function call in the upstream's answer: an object,
\* which is what the upstream's schema has; a string already encoded; and
\* the other JSON values, which the gateway takes as they come.
ArgumentForms == {London, EmptyObject, Encoded, LondonList, JsonNull}

\* json.dumps with the default separators.
json_dumps(value) ==
    [type |-> "str",
     v |-> CASE value = London -> "{\"query\": \"London\"}"
             [] value = EmptyObject -> "{}"
             [] value = LondonList -> "[\"London\"]"
             [] value = JsonNull -> "null"
             [] OTHER -> "\"{\\\"query\\\":\\\"London\\\"}\""]

\* json.loads of a text, as the client of test.py:233 calls it.
json_loads_text(text) ==
    CASE text \in {"{\"query\": \"London\"}", "{\"query\":\"London\"}"} ->
            Returned(London)
      [] text = "{}" -> Returned(EmptyObject)
      [] text = "[\"London\"]" -> Returned(LondonList)
      [] text = "null" -> Returned(JsonNull)
      [] text = "\"{\\\"query\\\":\\\"London\\\"}\"" -> Returned(Encoded)
      [] OTHER -> Raised(JsonNull)

\* misc.py:197-199 with json.dumps applied to whatever arrives.
arguments_always_dumped(arguments) == json_dumps(arguments)
\* misc.py:197-199: a dict is serialized, anything else is left as it is.
arguments_translation(arguments) ==
    IF arguments.type = "dict" THEN json_dumps(arguments) ELSE arguments

\* An entry of toolCallList.toolCalls: with a functionCall, or without.
ToolCalls ==
    [functionCall : {TRUE}, name : {"weather_request"}, arguments : ArgumentForms]
    \cup {[functionCall |-> FALSE, name |-> "", arguments |-> JsonNull]}
ToolCallLists == SeqsUpTo(ToolCalls, MaxToolCalls)

\* misc.py:193-211: the tool_calls of the choice of that index: one for
\* each entry that has a functionCall, idx being the entry's position; the
\* id stands for f"call_{current_time}_{i}_{idx}".  A
\* message without toolCallList is one whose list is empty: neither gets
\* a tool_calls key.
tool_calls_translation(toolCalls, index) ==
    LET new_tool_call(idx) ==
            [id |-> <<"call_", "current_time", index, idx>>,
             type |-> "function",
             name |-> toolCalls[idx + 1].name,
             arguments |-> arguments_translation(toolCalls[idx + 1].arguments)]
        withCall == SelectSeq([n \in 1..Len(toolCalls) |-> n - 1],
                              LAMBDA idx : toolCalls[idx + 1].functionCall)
    IN [n \in 1..Len(withCall) |-> new_tool_call(withCall[n])]

\* The alternatives of a non-streamed answer: of a text answer, and of an
\* answer that calls tools.
Alternatives ==
    [status : Statuses, role : Roles, text : {<<>>}, toolCalls : {<<>>}]
ToolAlternatives ==
    [status : {"ALTERNATIVE_STATUS_TOOL_CALLS"}, role : Roles, text : {<<>>},
     toolCalls : ToolCallLists]
TextAnswers == SeqsUpTo(Alternatives, MaxAlternatives) \ {<<>>}
\* An alternative that calls tools, alone or after one that is a text.
FinalText ==
    [status |-> "ALTERNATIVE_STATUS_FINAL", role |-> "assistant",
     text |-> <<>>, toolCalls |-> <<>>]
ToolAnswers ==
    {<<a>> : a \in ToolAlternatives} \cup {<<FinalText, a>> : a \in ToolAlternatives}

\* misc.py:174-220: the choices' finish reasons, or the exception of the
\* first alternative whose status has no mapping.
RECURSIVE chat_completion_translation(_)
chat_completion_translation(alternatives) ==
    IF alternatives = <<>> THEN Returned(<<>>)
    ELSE LET fr == finish_reason_translation(Head(alternatives).status) IN
         IF ~fr.ok THEN Raised(<<fr.val>>)
         ELSE LET rest == chat_completion_translation(Tail(alternatives)) IN
              IF rest.ok THEN Returned(<<fr.val>> \o rest.val) ELSE rest

\* stream=False: one upstream call, its answer translated.
non_stream_chat_completions(r, a, Answers) ==
    LET c == get_creds(a) IN
    /\ a.outcome = "ok"
    /\ ~r.stream
    /\ req' = r
    /\ lookups' = a.lookups
    /\ creds' = c
    /\ \E st \in UpstreamStatuses :
         /\ upstream' = <<Answered(CompletionCall("completion", c, r), st, FALSE)>>
         /\ \/ /\ st # 200
               /\ resp' = Resp(st, "error", <<"upstream">>)
               /\ UNCHANGED sent
            \/ /\ st = 200
               /\ \E alts \in Answers :
                    LET t == chat_completion_translation(alts) IN
                    /\ sent' = alts
                    /\ resp' =
                          IF t.ok
                          THEN [Resp(200, "chat.completion", t.val) EXCEPT
                                   !.tool_calls =
                                       [n \in 1..Len(alts) |->
                                          tool_calls_translation(
                                             alts[n].toolCalls, n - 1)],
                                   !.id = response_id(c.user_id),
                                   !.system_fingerprint =
                                       system_fingerprint(c.user_id)]
                          ELSE Resp(500, "error", <<"Internal Server Error">>)
    /\ pc' = "responded"
    /\ UNCHANGED <<BYOK, tokens, timers, tasks, issued, images, storeOps, wire, str_index, parsed,
                   emitted, pollVars>>

\* stream=True: the StreamingResponse is started (status 200), then the
\* generator posts upstream; a non-200 answer raises inside the generator.
stream_chat_completions_start(r, a) ==
    LET c == get_creds(a) IN
    /\ a.outcome = "ok"
    /\ r.stream
    /\ req' = r
    /\ lookups' = a.lookups
    /\ creds' = c
    /\ \E st \in UpstreamStatuses :
         /\ upstream' =
               <<Answered(CompletionCall("completion_stream", c, r), st, FALSE)>>
         /\ IF st = 200
            THEN /\ resp' = Resp(200, "stream", <<"open">>)
                 /\ pc' = "stream"
            ELSE /\ resp' = Resp(200, "stream", <<"aborted", "HTTPException">>)
                 /\ pc' = "responded"
    /\ UNCHANGED <<BYOK, tokens, timers, tasks, issued, images, storeOps, streamVars, pollVars>>

chat_completions_by(Toks, Streams, MsgLists, TlLists, Answers) ==
    /\ pc = "idle"
    /\ \E token \in Toks, stream \in Streams, messages \in MsgLists,
          tools \in TlLists :
         LET r == [Req("chat", token) EXCEPT !.stream = stream,
                      !.messages = messages, !.tools = tools]
             a == authenticate_user(token)
         IN \/ Rejected(r, a)
            \/ non_stream_chat_completions(r, a, Answers)
            \/ stream_chat_completions_start(r, a)

chat_completions ==
    chat_completions_by(Tokens \cup {None}, BOOLEAN,
                        SampleMessageLists, SampleToolLists, TextAnswers)

\* app.py:182 with the frame put ahead of those already sent.
YieldFirst(out, new_chunk) == <<new_chunk>> \o out
\* app.py:182: the generator yields one SSE frame, "data: <chunk-json>\n\n";
\* the response body is the frames in the order they were yielded.
Yield(out, new_chunk) == Append(out, new_chunk)

\* The upstream writes its next frame.
UpstreamSend ==
    /\ pc = "stream"
    /\ Len(sent) < MaxFrames
    /\ \E f \in Frames :
         /\ sent' = Append(sent, f)
         /\ wire' = wire \o Encode(f)
    /\ UNCHANGED <<BYOK, tokens, timers, tasks, issued, pc, req, creds, resp, upstream, lookups,
                   images, storeOps, str_index, parsed, emitted,
                   pollVars>>

\* app.py:172-185: one pass of the loop body, for one network fragment.
stream_chat_completions_chunk ==
    /\ pc = "stream"
    /\ \E n \in 1..Len(wire) :
         LET chunk == SubSeq(wire, 1, n)
             chunk_text == Utf8Decode(chunk)
             data == json_loads(chunk_text.val)
             deltatext == DeltaText(data.val.text, str_index)
             new_chunk == chat_completion_chunk_translation(data.val, deltatext,
                                                            creds.user_id)
         IN /\ wire' = SubSeq(wire, n + 1, Len(wire))
            /\ IF ~chunk_text.ok THEN
                  /\ resp' = Resp(200, "stream", <<"aborted", "UnicodeDecodeError">>)
                  /\ pc' = "responded"
                  /\ UNCHANGED <<str_index, parsed, emitted>>
               ELSE IF ~data.ok THEN
                  UNCHANGED <<resp, pc, str_index, parsed, emitted>>
               ELSE
                  /\ parsed' = Append(parsed, data.val)
                  /\ str_index' = NextStrIndex(data.val.text, str_index)
                  /\ IF new_chunk.ok THEN
                        /\ emitted' = Yield(emitted, new_chunk.val)
                        /\ UNCHANGED <<resp, pc>>
                     ELSE
                        /\ resp' = Resp(200, "stream", <<"aborted", "Exception">>)
                        /\ pc' = "responded"
                        /\ UNCHANGED emitted
    /\ UNCHANGED <<BYOK, tokens, timers, tasks, issued, req, creds, upstream, lookups, images,
                   storeOps, sent, pollVars>>

\* The upstream closes the connection once all its bytes are delivered.
UpstreamClose ==
    /\ pc = "stream"
    /\ wire = <<>>
    /\ resp' = Resp(200, "stream", <<"closed">>)
    /\ pc' = "responded"
    /\ UNCHANGED <<BYOK, tokens, timers, tasks, issued, req, creds, upstream, lookups, images,
                   storeOps, streamVars, pollVars>>

-----------------------------------------------------------------------------
(* POST /v1/embeddings: app.py:230-262 *)

\* The JSON body of a 200 answer of the textEmbedding endpoint.  The
\* endpoint answers one object {embedding, numTokens, modelVersion};
\* embeddings_translation is written for a list of such objects.
Vectors == {"vector1", "vector2"}
EmbeddingObjects == [embedding : Vectors, numTokens : {"3"}]
EmbeddingBodies ==
    [kind : {"object"}, items : {<<e>> : e \in EmbeddingObjects}]
    \cup [kind : {"array"}, items : SeqsUpTo(EmbeddingObjects, MaxEmbeddings)]

\* misc.py:289-333: the data of the answer, or the exception.  The loop
\* takes the elements of a list; of a dict it takes the keys, which are
\* strings, and embedding["embedding"] on a string raises TypeError; with
\* nothing to loop over, embeddings[0] raises at line 323.
embeddings_translation(embs) ==
    IF embs.kind = "array" /\ embs.items # <<>>
    THEN Returned([n \in 1..Len(embs.items) |->
                      [index |-> n - 1, embedding |-> embs.items[n].embedding]])
    ELSE Raised(<<>>)

embeddings_by(Toks) ==
    /\ pc = "idle"
    /\ \E token \in Toks :
         LET r == Req("embeddings", token)
             a == authenticate_user(token)
             c == get_creds(a)
         IN \/ Rejected(r, a)
            \/ /\ a.outcome = "ok"
               /\ req' = r
               /\ lookups' = a.lookups
               /\ creds' = c
               /\ \E st \in UpstreamStatuses :
                    /\ upstream' =
                          <<Answered(UpstreamCall("textEmbedding", c), st, FALSE)>>
                    /\ IF st # 200 THEN
                          /\ resp' = Resp(st, "error", <<"upstream">>)
                          /\ UNCHANGED sent
                       ELSE
                          \E response_json \in EmbeddingBodies :
                             LET t == embeddings_translation(response_json) IN
                             /\ sent' = <<response_json>>
                             /\ resp' =
                                   IF t.ok THEN Resp(200, "list", t.val)
                                   ELSE Resp(500, "error",
                                             <<"Internal Server Error">>)
               /\ pc' = "responded"
               /\ UNCHANGED <<BYOK, tokens, timers, tasks, issued, images,
                              storeOps, wire, str_index, parsed, emitted,
                              pollVars>>

embeddings == embeddings_by(Tokens \cup {None})

-----------------------------------------------------------------------------
(* POST /v1/images/generations: app.py:275-375, misc.py:344-377 *)

OperationIds == {"op1", "op2"}
\* app.py:317: the upstream names each operation it creates with an id of
\* its own; it hands them out in this order.
OperationOrder == <<"op1", "op2">>
Payloads == {"jpeg", "not-base64"}      \* the image field of a done operation
Digits == {"1", "2"}
Sizes == { <<"1", "x", "2">>, <<"1">>, <<"q", "x", "1">>, <<"x", "1">> }

FileName(oid) == <<oid, ".jpg">>

\* int(s) of Python: the number, or ValueError.
RECURSIVE DigitsValue(_)
DigitsValue(s) ==
    IF s = <<>> THEN 0
    ELSE 10 * DigitsValue(SubSeq(s, 1, Len(s) - 1))
         + (IF s[Len(s)] = "1" THEN 1 ELSE 2)
int(s) == IF s # <<>> /\ Range(s) \subseteq Digits
          THEN Returned(DigitsValue(s)) ELSE Raised(0)

\* app.py:280-304: the aspect ratio sent upstream, or ValueError.
AspectRatio(size) ==
    LET parts == Split(size, "x")
        wh == IF Len(parts) # 2 THEN << <<"1", "0", "2", "4">>, <<"1", "0", "2", "4">> >>
              ELSE parts
        w == IF Len(parts) # 2 THEN Returned(1024) ELSE int(wh[1])
        h == IF Len(parts) # 2 THEN Returned(1024) ELSE int(wh[2])
    IN IF w.ok /\ h.ok THEN Returned(<<w.val, h.val>>) ELSE Raised(<<>>)

\* base64.b64decode(image), misc.py:369
b64decode(image) == IF image = "jpeg" THEN Returned("jpeg-bytes") ELSE Raised("")

\* app.py:345-358: the dependency, get_creds and image_generation_request.
image_generation_submit(r, a, size) ==
    LET c == get_creds(a)
        ratio == AspectRatio(size)
    IN
    /\ a.outcome = "ok"
    /\ req' = r
    /\ lookups' = a.lookups
    /\ creds' = c
    /\ IF ~ratio.ok THEN
          /\ resp' = Resp(500, "error", <<"Internal Server Error">>)
          /\ pc' = "responded"
          /\ UNCHANGED <<upstream, operation_id, issued>>
       ELSE
          /\ \E st \in UpstreamStatuses, err \in BOOLEAN :
               /\ upstream' =
                     <<Answered([UpstreamCall("imageGenerationAsync", c)
                                    EXCEPT !.arg = ratio.val], st, err)>>
               /\ IF st # 200 THEN
                     /\ resp' = Resp(st, "error", <<"upstream">>)
                     /\ pc' = "responded"
                     /\ UNCHANGED <<operation_id, issued>>
                  ELSE IF err THEN
                     /\ resp' = Resp(500, "error", <<"upstream">>)
                     /\ pc' = "responded"
                     /\ UNCHANGED <<operation_id, issued>>
                  ELSE
                     /\ issued < Len(OperationOrder)
                     /\ operation_id' = OperationOrder[issued + 1]
                     /\ issued' = issued + 1
                     /\ pc' = "poll"
                     /\ UNCHANGED resp
    /\ UNCHANGED <<BYOK, tokens, timers, tasks, images, storeOps, streamVars,
                   i, response_data, pollLog, sleeps>>

image_generation_by(Toks) ==
    /\ pc = "idle"
    /\ \E token \in Toks, timeout \in 0..MaxTimeout, b64 \in BOOLEAN,
          size \in Sizes :
         LET r == [Req("images_generations", token)
                      EXCEPT !.timeout = timeout, !.b64 = b64, !.size = size]
             a == authenticate_user(token)
         IN \/ Rejected(r, a)
            \/ image_generation_submit(r, a, size)

image_generation == image_generation_by(Tokens \cup {None})

PollOutcomes == {"pending", "done", "done_no_response", "error", "http_error"}

\* app.py:337-341 without the test of "done": any answer that is not an
\* error is returned as the operation.
image_generation_check_any_answer(outcome, image) ==
    CASE outcome = "http_error" -> Raised(Resp(429, "error", <<"upstream">>))
      [] outcome = "error" -> Raised(Resp(500, "error", <<"upstream">>))
      [] OTHER -> Returned([set |-> TRUE, image |-> image, id |-> operation_id])

\* app.py:320-341: what image_generation_check returns for the upstream's
\* answer: the operation, None, or the HTTPException it raises.
image_generation_check(outcome, image) ==
    CASE outcome = "http_error" -> Raised(Resp(429, "error", <<"upstream">>))
      [] outcome = "error" -> Raised(Resp(500, "error", <<"upstream">>))
      [] outcome = "done" ->
            Returned([set |-> TRUE, image |-> image, id |-> operation_id])
      [] OTHER -> Returned(NoData)

\* app.py:365 with >= for >.
TimedOutAtOrAbove(attempts, timeout) == attempts >= timeout
\* app.py:365
TimedOut(attempts, timeout) == attempts > timeout

\* app.py:363-367: one status poll, the count and the timeout test.
image_generation_poll ==
    /\ pc = "poll"
    /\ \E outcome \in PollOutcomes, image \in Payloads :
         LET checked == image_generation_check(outcome, image) IN
         /\ upstream' = Append(upstream,
                Answered(UpstreamCall("operations", creds),
                         IF outcome = "http_error" THEN 429 ELSE 200,
                         outcome = "error"))
         /\ pollLog' = Append(pollLog, outcome)
         /\ IF ~checked.ok THEN
               /\ resp' = checked.val
               /\ pc' = "responded"
               /\ UNCHANGED <<i, response_data>>
            ELSE
               /\ response_data' = checked.val
               /\ i' = i + 1
               /\ IF TimedOut(i + 1, req.timeout) THEN
                     /\ resp' = [Resp(500, "error", <<"Image generation timeout">>)
                                    EXCEPT !.n = req.timeout]
                     /\ pc' = "responded"
                  ELSE
                     /\ pc' = "sleep"
                     /\ UNCHANGED resp
    /\ UNCHANGED <<BYOK, tokens, timers, tasks, issued, req, creds, lookups, images, storeOps,
                   streamVars, sleeps, operation_id>>

\* misc.py:372 with the timer left out.
call_later_never(ts, delay, image_path) == ts
\* misc.py:372: loop.call_later(3600, asyncio.create_task, delete_image(path))
call_later(ts, delay, image_path) ==
    Append(ts, [path |-> image_path, left |-> delay])

\* misc.py:355-373: the response, and the store and the timers after it.
\* open(image_path, "wb") creates the file before b64decode is called.
image_generation_translation(data, b64) ==
    LET path == FileName(data.id)
        bytes == b64decode(data.image)
    IN IF b64 THEN [resp |-> Resp(200, "b64_json", <<data.image>>),
                    images |-> images, timers |-> timers, ops |-> 0]
       ELSE IF bytes.ok
       THEN [resp |-> Resp(200, "url", path),
             images |-> (path :> bytes.val) @@ images,
             timers |-> call_later(timers, RetentionSeconds, path), ops |-> 1]
       ELSE [resp |-> Resp(500, "error", <<"Internal Server Error">>),
             images |-> (path :> "") @@ images, timers |-> timers, ops |-> 1]

\* app.py:368-375: the sleep ends; the loop polls again, or is left and
\* the operation is translated.
image_generation_sleep ==
    /\ pc = "sleep"
    /\ sleeps' = sleeps + 1
    /\ IF ~response_data.set THEN
          /\ pc' = "poll"
          /\ UNCHANGED <<resp, images, timers, storeOps>>
       ELSE
          LET t == image_generation_translation(response_data, req.b64) IN
          /\ resp' = t.resp
          /\ images' = t.images
          /\ timers' = t.timers
          /\ storeOps' = storeOps + t.ops
          /\ pc' = "responded"
    /\ UNCHANGED <<BYOK, tokens, tasks, issued, req, creds, upstream, lookups, streamVars,
                   i, response_data, pollLog, operation_id>>

-----------------------------------------------------------------------------
(* GET /v1/images/{image_id}: app.py:377-385 *)

ImageIds == {FileName(o) : o \in OperationIds} \cup {<<o, "">> : o \in OperationIds}

get_image_by(Toks) ==
    /\ pc = "idle"
    /\ \E token \in Toks, image_id \in ImageIds :
         LET r == [Req("images_get", token) EXCEPT !.image_id = image_id]
             a == authenticate_user(token)
         IN \/ Rejected(r, a)
            \/ /\ a.outcome = "ok"
               /\ req' = r
               /\ lookups' = a.lookups
               /\ creds' = get_creds(a)
               /\ storeOps' = 1
               /\ resp' = IF image_id \in DOMAIN images
                          THEN Resp(200, "image/jpeg", <<images[image_id]>>)
                          ELSE Resp(404, "error", <<"Image not found">>)
               /\ pc' = "responded"
               /\ UNCHANGED <<BYOK, tokens, timers, tasks, issued, upstream, images, streamVars, pollVars>>

get_image == get_image_by(Tokens \cup {None})

-----------------------------------------------------------------------------

\* The response is out; the server takes the next request.
Finish ==
    /\ pc = "responded"
    /\ pc' = "idle"
    /\ req' = NoReq
    /\ creds' = NoCreds
    /\ resp' = NoResp
    /\ upstream' = <<>>
    /\ lookups' = 0
    /\ storeOps' = 0
    /\ sent' = <<>>
    /\ wire' = <<>>
    /\ str_index' = 0
    /\ parsed' = <<>>
    /\ emitted' = <<>>
    /\ i' = 0
    /\ response_data' = NoData
    /\ pollLog' = <<>>
    /\ sleeps' = 0
    /\ operation_id' = ""
    /\ UNCHANGED <<BYOK, tokens, timers, tasks, issued, images>>

-----------------------------------------------------------------------------
(* The scheduled deletions: misc.py:335-342, 372.  A timer is the path it  *)
(* was made for and the seconds left before the loop runs its callback.    *)
(* Time passes in steps of TickSeconds; the loop runs a callback that is   *)
(* due before more time passes.                                            *)

Remove(s, n) == SubSeq(s, 1, n - 1) \o SubSeq(s, n + 1, Len(s))
Without(store, image_path) ==
    [q \in DOMAIN store \ {image_path} |-> store[q]]

\* misc.py:341-342 without the test of os.path.exists: os.remove raises
\* FileNotFoundError for a file that is gone.
delete_image_unchecked(store, image_path) ==
    IF image_path \in DOMAIN store THEN Returned(Without(store, image_path))
    ELSE Raised(store)

\* misc.py:335-342: the store after delete_image(image_path).
delete_image(store, image_path) ==
    IF image_path \in DOMAIN store THEN Returned(Without(store, image_path))
    ELSE Returned(store)

\* Time passes while deletions are pending.
Tick ==
    /\ timers # <<>>
    /\ \A n \in 1..Len(timers) : timers[n].left > 0
    /\ timers' = [n \in 1..Len(timers) |->
                     [timers[n] EXCEPT !.left = @ - TickSeconds]]
    /\ UNCHANGED <<BYOK, tokens, pc, req, creds, resp, upstream, lookups,
                   images, tasks, issued, storeOps, streamVars, pollVars>>

\* A timer is due: the loop creates the task and delete_image runs.
delete_image_task ==
    /\ \E n \in 1..Len(timers) :
         LET done == delete_image(images, timers[n].path) IN
         /\ timers[n].left <= 0
         /\ timers' = Remove(timers, n)
         /\ images' = done.val
         /\ tasks' = tasks \cup
                {[path |-> timers[n].path,
                  outcome |-> IF ~done.ok THEN "FileNotFoundError"
                              ELSE IF timers[n].path \in DOMAIN images
                              THEN "removed" ELSE "nothing to remove"]}
    /\ UNCHANGED <<BYOK, tokens, pc, req, creds, resp, upstream, lookups,
                   issued, storeOps, streamVars, pollVars>>

\* A file of data/images is removed by something other than the gateway
\* (the operator, a cleanup job): what os.path.exists at misc.py:341 is for.
\* A step of the gateway's surroundings, not of the gateway: it is part of
\* the image store's specification (NextStore) only.
ImageFileRemoved ==
    /\ \E image_path \in DOMAIN images :
         images' = Without(images, image_path)
    /\ UNCHANGED <<BYOK, tokens, pc, req, creds, resp, upstream, lookups,
                   timers, tasks, issued, storeOps, streamVars, pollVars>>

Next ==
    \/ health_check
    \/ models_list
    \/ chat_completions
    \/ UpstreamSend
    \/ stream_chat_completions_chunk
    \/ UpstreamClose
    \/ embeddings
    \/ image_generation
    \/ image_generation_poll
    \/ image_generation_sleep
    \/ get_image
    \/ Tick
    \/ delete_image_task
    \/ Finish

Spec == Init /\ [][Next]_vars

-----------------------------------------------------------------------------
(* Component specifications: the same server, with BYOK on and the         *)
(* registry loaded, serving one kind of request from two callers (a        *)
(* registered token and a BYOK token).                                     *)

CallerTokens == { <<"a", "a">>, <<"a", ":", "k">> }

InitComponent == Init /\ BYOK /\ DOMAIN tokens # {}

NextStream ==
    \/ chat_completions_by(CallerTokens, BOOLEAN,
                           SampleMessageLists, SampleToolLists, TextAnswers)
    \/ UpstreamSend
    \/ stream_chat_completions_chunk
    \/ UpstreamClose
    \/ Finish

SpecStream == InitComponent /\ [][NextStream]_vars

NextImage ==
    \/ image_generation_by(CallerTokens)
    \/ image_generation_poll
    \/ image_generation_sleep
    \/ Finish

\* Every await of the request task returns: the upstream answers each
\* call (or the client's own timeout ends it) and each sleep ends.
SpecImage == InitComponent /\ [][NextImage]_vars /\ WF_vars(NextImage)

\* The credential resolver under every configuration and token, with the
\* upstream calls each request makes with what it resolved (the frames of
\* a stream carry no credentials and are left out).
NextAuth ==
    \/ health_check
    \/ models_list
    \/ chat_completions
    \/ embeddings
    \/ image_generation
    \/ image_generation_poll
    \/ image_generation_sleep
    \/ get_image
    \/ Finish

SpecAuth == Init /\ [][NextAuth]_vars

\* The translation of the bodies: one registered caller, every list of
\* messages and of tools of a chat request (the upstream's answer to it is
\* left at its status: a stream that is started gets no frames here), the
\* non-streamed chat request with every answer that calls tools, and the
\* embeddings request with every answer.
NextChat ==
    \/ chat_completions_by({<<"a", "a">>}, {TRUE}, MessageLists, ToolLists,
                           TextAnswers)
    \/ chat_completions_by({<<"a", "a">>}, {FALSE}, SampleMessageLists,
                           SampleToolLists, ToolAnswers)
    \/ embeddings_by({<<"a", "a">>})
    \/ Finish

SpecChat == InitComponent /\ [][NextChat]_vars

\* The image store: generation, fetch and the scheduled deletions, with
\* the health probe as the request that runs meanwhile.
NextStore ==
    \/ health_check
    \/ image_generation_by(CallerTokens)
    \/ image_generation_poll
    \/ image_generation_sleep
    \/ get_image_by(CallerTokens)
    \/ Tick
    \/ delete_image_task
    \/ ImageFileRemoved
    \/ Finish

\* The event loop runs: time passes and a callback that is due is called.
SpecStore ==
    /\ InitComponent
    /\ [][NextStore]_vars
    /\ WF_vars(Tick)
    /\ WF_vars(delete_image_task)

-----------------------------------------------------------------------------
(* Properties *)

Last(s) == s[Len(s)]

IsStream == req.endpoint = "chat" /\ req.stream
StreamClosed == IsStream /\ pc = "responded" /\ resp.detail = <<"closed">>

\* Every frame arrived as one fragment of its own.
WholeFrames == parsed = sent

Contents == [n \in 1..Len(emitted) |-> emitted[n].delta.content]
LastText == IF sent = <<>> THEN <<>> ELSE Last(sent).text

LengthsNonDecreasing ==
    \A n \in 1..(Len(sent) - 1) : Len(sent[n].text) <= Len(sent[n + 1].text)
EachExtendsPrevious ==
    \A n \in 1..(Len(sent) - 1) : IsPrefix(sent[n].text, sent[n + 1].text)

\* C1 as stated: when the upstream has closed a stream whose frames arrived
\* whole and whose text lengths never decreased, the emitted deltas
\* concatenated are the text of the last frame.
C1_AsStated ==
    (StreamClosed /\ WholeFrames /\ LengthsNonDecreasing)
        => Concat(Contents) = LastText

\* C1 (amended): when the upstream has closed a stream whose frames arrived
\* whole and in which each frame's text begins with the text of the frame
\* before it, the emitted deltas concatenated are the text of the last frame.
C1_DeltasRebuildText ==
    (StreamClosed /\ WholeFrames /\ EachExtendsPrevious)
        => Concat(Contents) = LastText

C1_Witness ==
    /\ StreamClosed /\ WholeFrames /\ EachExtendsPrevious
    /\ Len(sent) = 2
    /\ sent[1].text = <<"zh">>
    /\ sent[2].text = <<"zh">>
    /\ Contents = << <<"zh">>, <<>> >>

-----------------------------------------------------------------------------

Polling == req.endpoint = "images_generations" /\ operation_id # ""
InLoop == pc \in {"poll", "sleep"}

PendingThenDone ==
    /\ pollLog # <<>>
    /\ Last(pollLog) = "done"
    /\ \A n \in 1..(Len(pollLog) - 1) : pollLog[n] = "pending"

StatusPolls == Len(SelectSeq(upstream, LAMBDA u : u.kind = "operations"))

Decodable == req.b64 \/ response_data.image = "jpeg"

\* C2: when the upstream answered pending to the first k status polls and
\* done to the next, with k below the timeout, the loop polls no more (k+1
\* status requests were issued, none after the done one), no timeout is
\* reported and the request succeeds with that operation's image; no
\* request succeeds before a poll returned done.
C2_DoneAfterKPlusOnePolls ==
    Polling =>
        /\ StatusPolls = Len(pollLog)
        /\ InLoop => i = Len(pollLog)
        /\ (PendingThenDone /\ Len(pollLog) - 1 < req.timeout) =>
              /\ pc \in {"sleep", "responded"}
              /\ i = Len(pollLog)
              /\ response_data.set
              /\ (pc = "responded" /\ Decodable) =>
                    /\ resp.status = 200
                    /\ resp.detail = IF req.b64 THEN <<response_data.image>>
                                     ELSE FileName(operation_id)
        /\ resp.status = 200 =>
              /\ Last(pollLog) = "done"
              /\ \A n \in 1..(Len(pollLog) - 1) :
                    pollLog[n] \in {"pending", "done_no_response"}

C2_Witness ==
    /\ Polling /\ PendingThenDone
    /\ Len(pollLog) = 3
    /\ req.timeout = 3
    /\ pc = "responded"
    /\ resp.status = 200

NeverCompleted == \A n \in 1..Len(pollLog) : pollLog[n] = "pending"

IsTimeout ==
    /\ resp.status = 500
    /\ resp.detail = <<"Image generation timeout">>

C3_Safety ==
    (Polling /\ NeverCompleted) =>
        /\ pc = "poll" => i <= req.timeout /\ sleeps = i
        /\ pc = "sleep" => i <= req.timeout /\ sleeps = i - 1
        /\ pc = "responded" =>
              /\ IsTimeout
              /\ resp.n = req.timeout
              /\ i = req.timeout + 1
              /\ StatusPolls = req.timeout + 1
              /\ sleeps = req.timeout

\* C3: for a timeout of 0 or more, while the upstream answers pending the
\* loop goes on until the attempt count first exceeds the timeout, which
\* is after timeout+1 polls and timeout one-second sleeps, and then fails
\* with the timeout error carrying the timeout; and the loop always ends.
C3_TimeoutAfterBudget ==
    /\ []C3_Safety
    /\ (Polling /\ InLoop) ~> (pc = "responded")

C3_Witness ==
    /\ Polling /\ NeverCompleted
    /\ pc = "responded"
    /\ IsTimeout
    /\ req.timeout = 2
    /\ sleeps = 2

-----------------------------------------------------------------------------

\* The separator splits the token into two non-empty parts.
ByokShaped(token) ==
    /\ token # None
    /\ Len(Split(token, ":")) = 2
    /\ Split(token, ":")[1] # <<>>
    /\ Split(token, ":")[2] # <<>>

Served == req.endpoint \in Protected

\* C4: with BYOK on, a token of two non-empty parts resolves to the first
\* part as account id and the second as API key with no user id, no
\* registry lookup is made, and every upstream call of the request carries
\* those two and not the server's own.
C4_ByokCredentials ==
    (Served /\ BYOK /\ ByokShaped(req.token)) =>
        LET parts == Split(req.token, ":") IN
        /\ resp.status # 401
        /\ creds = [catalogid |-> parts[1], secretkey |-> parts[2],
                    user_id |-> None]
        /\ lookups = 0
        /\ \A n \in 1..Len(upstream) :
              /\ upstream[n].catalogid = parts[1]
              /\ upstream[n].secretkey = parts[2]
              /\ upstream[n].catalogid # CATALOGID
              /\ upstream[n].secretkey # SECRETKEY

C4_Witness ==
    /\ Served /\ BYOK
    /\ req.token = <<"a", ":", "k">>
    /\ req.token \in DOMAIN tokens
    /\ creds.catalogid = <<"a">>
    /\ creds.secretkey = <<"k">>
    /\ Len(upstream) = 2

\* C5 as stated: for a token that the BYOK path does not apply to and that
\* is no key of the registry, resolution fails: nothing is resolved and the
\* request is answered 401.
C5_UnknownTokenIs401 ==
    (/\ Served
     /\ req.token # None
     /\ ~(BYOK /\ ByokShaped(req.token))
     /\ req.token \notin DOMAIN tokens)
        => (pc = "responded" /\ resp.status = 401 /\ creds = NoCreds)

\* C6: a token of the registry that the BYOK path does not take resolves
\* to the user id the registry holds for it and to the server's account id
\* and API key, which every upstream call of the request carries.
C6_RegistryCredentials ==
    (/\ Served
     /\ req.token \in DOMAIN tokens
     /\ ~(BYOK /\ ByokShaped(req.token)))
        => /\ resp.status # 401
           /\ lookups = 1
           /\ creds = [catalogid |-> CATALOGID, secretkey |-> SECRETKEY,
                       user_id |-> tokens[req.token]]
           /\ \A n \in 1..Len(upstream) :
                 /\ upstream[n].catalogid = CATALOGID
                 /\ upstream[n].secretkey = SECRETKEY

C6_Witness ==
    /\ Served /\ ~BYOK
    /\ req.token = <<"a", ":", "k">>
    /\ creds.user_id = <<"2">>
    /\ creds.catalogid = CATALOGID
    /\ Len(upstream) = 2

\* The token resolves on neither path.
FailsResolution(token) ==
    \/ token = None
    \/ /\ ~(BYOK /\ ByokShaped(token))
       /\ token \notin DOMAIN tokens

\* C7 as stated: a request to a protected endpoint whose token fails
\* resolution is answered 401, with no upstream request issued and the
\* image store untouched; health and models answer without a token.
C7_AuthBeforeWork ==
    /\ (Served /\ FailsResolution(req.token)) =>
          /\ pc = "responded"
          /\ resp.status = 401
          /\ upstream = <<>>
          /\ storeOps = 0
    /\ req.endpoint \in {"health", "models"} =>
          /\ req.token = None
          /\ resp.status = 200

-----------------------------------------------------------------------------

ExpectedFinishReason(status) ==
    CASE status = "ALTERNATIVE_STATUS_FINAL" -> "stop"
      [] status = "ALTERNATIVE_STATUS_TRUNCATED_FINAL" -> "length"
      [] status = "ALTERNATIVE_STATUS_CONTENT_FILTER" -> "content_filter"
      [] status = "ALTERNATIVE_STATUS_UNSPECIFIED" -> "unknown"
      [] status = "ALTERNATIVE_STATUS_TOOL_CALLS" -> "tool_calls"
      [] status = "ALTERNATIVE_STATUS_PARTIAL" -> "None"
      [] OTHER -> "no such status"

ClosedSet ==
    { "ALTERNATIVE_STATUS_FINAL", "ALTERNATIVE_STATUS_TRUNCATED_FINAL",
      "ALTERNATIVE_STATUS_CONTENT_FILTER", "ALTERNATIVE_STATUS_UNSPECIFIED",
      "ALTERNATIVE_STATUS_TOOL_CALLS", "ALTERNATIVE_STATUS_PARTIAL" }

\* C8: every finish reason given to the caller is the table's entry for the
\* status it came from, null only for PARTIAL; a status outside the table
\* yields no chunk and no choice: the stream is aborted at that frame and
\* the non-streamed request fails with 500.
C8_FinishReasonTable ==
    /\ IsStream =>
          /\ Len(emitted) <= Len(parsed)
          /\ \A n \in 1..Len(emitted) :
                /\ parsed[n].status \in ClosedSet
                /\ emitted[n].finish_reason = ExpectedFinishReason(parsed[n].status)
                /\ (emitted[n].finish_reason = "None")
                      <=> (parsed[n].status = "ALTERNATIVE_STATUS_PARTIAL")
          /\ \A n \in 1..Len(parsed) :
                parsed[n].status \notin ClosedSet =>
                   /\ n = Len(parsed)
                   /\ Len(emitted) = n - 1
                   /\ pc = "responded"
                   /\ resp.detail = <<"aborted", "Exception">>
    /\ (req.endpoint = "chat" /\ ~req.stream /\ sent # <<>>) =>
          IF \A n \in 1..Len(sent) : sent[n].status \in ClosedSet
          THEN /\ resp.status = 200
               /\ resp.detail =
                     [n \in 1..Len(sent) |-> ExpectedFinishReason(sent[n].status)]
          ELSE resp.status = 500

C8_Witness ==
    /\ IsStream
    /\ Len(emitted) = 1
    /\ emitted[1].finish_reason = "None"
    /\ Len(parsed) = 2
    /\ parsed[2].status = "ALTERNATIVE_STATUS_NEW"
    /\ resp.detail = <<"aborted", "Exception">>

\* C9 as stated: only the first chunk of a stream carries a role in its
\* delta.
C9_RoleOnlyOnFirstChunk ==
    IsStream => \A n \in 2..Len(emitted) : "role" \notin DOMAIN emitted[n].delta

\* The fragment a step of the loop consumed.
Consumed == SubSeq(wire, 1, Len(wire) - Len(wire'))
IsOneObject(frag) == \E f \in Frames : frag = Encode(f)

\* C10 as stated: a fragment that is not one complete JSON object is
\* dropped: nothing is emitted for it, the cursor stays and the stream
\* stays open.
C10_BadFragmentDropped ==
    [][(/\ pc = "stream"
        /\ sent' = sent
        /\ wire' # wire
        /\ ~IsOneObject(Consumed))
          => (/\ emitted' = emitted
              /\ str_index' = str_index
              /\ pc' = "stream")]_vars

-----------------------------------------------------------------------------

\* The cursor when the n-th parsed frame was taken: the length of the text
\* of the parsed frame before it.
CursorBefore(n) == IF n = 1 THEN 0 ELSE Len(parsed[n - 1].text)

\* The stream was ended by a parsed frame whose status has no finish reason.
EndedByStatus ==
    /\ parsed # <<>>
    /\ Last(parsed).status \notin ClosedSet
    /\ pc = "responded"

\* C11: a parsed frame whose text is shorter than the cursor does not make
\* the tracker fail: the chunk emitted for it has the empty string as its
\* delta content and the stream is not ended at that frame: it ends when
\* the upstream closes or on a later fragment (a frame whose status has no
\* finish reason ends the stream whatever its length).
C11_ShorterTextEmptyDelta ==
    IsStream =>
        \A n \in 1..Len(parsed) :
            (Len(parsed[n].text) < CursorBefore(n)
                /\ parsed[n].status \in ClosedSet) =>
                    /\ Len(emitted) >= n
                    /\ emitted[n].delta.content = <<>>
                    /\ (pc = "responded" /\ n = Len(parsed)) =>
                          resp.detail \in { <<"closed">>,
                                            <<"aborted", "UnicodeDecodeError">> }

C11_Witness ==
    /\ IsStream
    /\ pc = "stream"
    /\ Len(parsed) = 2
    /\ parsed[1].text = <<"zh">>
    /\ parsed[2].text = <<>>
    /\ str_index = 0
    /\ Len(emitted) = 2
    /\ emitted[2].delta.content = <<>>

\* The chunk the n-th parsed frame gives.
ChunkOf(n) ==
    [delta |-> [content |-> SubSeq(parsed[n].text, CursorBefore(n) + 1,
                                   Len(parsed[n].text)),
                role |-> parsed[n].role],
     finish_reason |-> ExpectedFinishReason(parsed[n].status),
     id |-> response_id(creds.user_id),
     system_fingerprint |-> system_fingerprint(creds.user_id)]

IsSubsequence(s, t) ==
    \E f \in [1..Len(s) -> 1..Len(t)] :
        /\ \A n \in 1..Len(s) : s[n] = t[f[n]]
        /\ \A n \in 1..(Len(s) - 1) : f[n] < f[n + 1]

\* C12: one frame is emitted per parsed fragment, in arrival order: the
\* n-th emitted chunk is the chunk of the n-th parsed fragment, the parsed
\* fragments are frames the upstream sent, in the order it sent them, and
\* there are as many chunks as parsed fragments (one fewer when the last
\* parsed fragment's status has no finish reason and ended the stream).
C12_OneChunkPerFragmentInOrder ==
    IsStream =>
        /\ IsSubsequence(parsed, sent)
        /\ \A n \in 1..Len(emitted) : n <= Len(parsed) /\ emitted[n] = ChunkOf(n)
        /\ Len(emitted) = IF EndedByStatus THEN Len(parsed) - 1 ELSE Len(parsed)

C12_Witness ==
    /\ StreamClosed
    /\ Len(sent) = 2
    /\ parsed = sent
    /\ sent[1].text = <<>>
    /\ sent[2].text = <<"a">>
    /\ sent[1].status = "ALTERNATIVE_STATUS_PARTIAL"
    /\ sent[2].status = "ALTERNATIVE_STATUS_FINAL"
    /\ Len(emitted) = 2
    /\ emitted[1].finish_reason = "None"
    /\ emitted[2].delta.content = <<"a">>

-----------------------------------------------------------------------------

ImagePaths == {FileName(o) : o \in OperationIds}

TimersFor(image_path) ==
    Len(SelectSeq(timers, LAMBDA t : t.path = image_path))

IsDecodedImage(store, image_path) ==
    image_path \in DOMAIN store /\ store[image_path] = "jpeg-bytes"

\* The step that returns an image-generation response with a URL.
UrlResponseStep ==
    /\ pc = "sleep"
    /\ pc' = "responded"
    /\ ~req.b64
    /\ resp'.status = 200

\* The step in which a timer fires.
TimerFires == Len(timers') < Len(timers)

\* The step that answers GET /v1/images/{id} for a caller that passed
\* authentication.
ImageFetchStep ==
    /\ pc = "idle"
    /\ req'.endpoint = "images_get"
    /\ resp'.status \notin {401, 500}

C13_Stored ==
    /\ \A n \in 1..Len(timers) : timers[n].left <= RetentionSeconds
    /\ \A image_path \in ImagePaths :
          /\ TimersFor(image_path) <= 1
          /\ IsDecodedImage(images, image_path) => TimersFor(image_path) = 1

C13_Steps ==
    /\ UrlResponseStep =>
          LET image_path == FileName(operation_id) IN
          /\ resp'.detail = image_path
          /\ IsDecodedImage(images', image_path)
          /\ TimersFor(image_path) = 0
          /\ timers' = Append(timers, [path |-> image_path,
                                       left |-> RetentionSeconds])
    /\ TimerFires =>
          \E n \in 1..Len(timers) :
              /\ timers' = Remove(timers, n)
              /\ timers[n].left <= 0
              /\ timers[n].path \notin DOMAIN images'
    /\ ImageFetchStep =>
          resp'.status = IF req'.image_id \in DOMAIN images THEN 200 ELSE 404

\* C13: the response of a URL-output generation names '<operationId>.jpg',
\* and when it is returned the decoded image is stored under that key and
\* one deletion of it, the only one, is pending with the whole retention
\* window (3600 s) ahead; a timer fires only once its window has passed and
\* leaves its object absent; a stored image never outlives its timer, is
\* eventually absent, and GET answers 404 exactly for keys that are absent.
C13_StoredUntilRetentionEnds ==
    /\ []C13_Stored
    /\ [][C13_Steps]_vars
    /\ \A image_path \in ImagePaths :
          IsDecodedImage(images, image_path) ~> (image_path \notin DOMAIN images)

C13_Witness ==
    /\ pc = "responded"
    /\ req.endpoint = "images_get"
    /\ req.image_id = FileName("op1")
    /\ resp.status = 404
    /\ tasks = {[path |-> FileName("op1"), outcome |-> "removed"]}
    /\ timers = <<[path |-> FileName("op2"), left |-> RetentionSeconds]>>
    /\ IsDecodedImage(images, FileName("op2"))

C14_Tasks ==
    /\ \A t \in tasks : t.outcome \in {"removed", "nothing to remove"}
    /\ (pc = "idle" /\ timers # <<>>) => ENABLED health_check

C14_Steps ==
    /\ UrlResponseStep =>
          /\ timers' # <<>>
          /\ Last(timers').path = FileName(operation_id)
          /\ Last(timers').left > 0
          /\ tasks' = tasks
    /\ TimerFires =>
          /\ UNCHANGED <<pc, req, creds, resp, upstream, lookups, storeOps,
                         streamVars, pollVars, BYOK, tokens>>
          /\ \E n \in 1..Len(timers) :
                /\ timers' = Remove(timers, n)
                /\ \A q \in DOMAIN images \ {timers[n].path} :
                      q \in DOMAIN images' /\ images'[q] = images[q]
                /\ DOMAIN images' \subseteq DOMAIN images
                /\ timers[n].path \notin DOMAIN images => images' = images
    /\ (Len(timers') >= Len(timers) /\ timers # <<>> /\ pc' # pc) =>
          \A n \in 1..Len(timers) : timers'[n] = timers[n]

\* C14: the URL response is returned with its timer still pending and no
\* deletion task run for it; a request can start while timers are pending,
\* and the steps of a request leave the pending timers as they are; a timer
\* that fires changes nothing of any request and nothing of the store but
\* its own object, and when that object is already gone it changes
\* nothing at all and the task ends without an exception.
C14_DeletionDetached ==
    /\ []C14_Tasks
    /\ [][C14_Steps]_vars

C14_Witness ==
    /\ pc = "responded"
    /\ req.endpoint = "health"
    /\ [path |-> FileName("op1"), outcome |-> "nothing to remove"] \in tasks
    /\ IsDecodedImage(images, FileName("op2"))
    /\ timers = <<[path |-> FileName("op2"),
                   left |-> RetentionSeconds - TickSeconds]>>

-----------------------------------------------------------------------------

\* The size string is a 'WxH' pair of integers.
WellFormedSize(size) ==
    LET parts == Split(size, "x") IN
    /\ Len(parts) = 2
    /\ int(parts[1]).ok
    /\ int(parts[2]).ok

DefaultRatio == <<1024, 1024>>

ImageRequestServed ==
    /\ req.endpoint = "images_generations"
    /\ authenticate_user(req.token).outcome = "ok"

\* C15 as stated: an image request whose size string is not a well-formed
\* 'WxH' pair is submitted upstream with the default ratio 1024:1024.
C15_MalformedSizeFallsBack ==
    (ImageRequestServed /\ ~WellFormedSize(req.size)) =>
        /\ upstream # <<>>
        /\ upstream[1].kind = "imageGenerationAsync"
        /\ upstream[1].arg = DefaultRatio

\* The store holds nothing for the operation of the request.
NothingStored == FileName(operation_id) \notin DOMAIN images

\* C16 as stated: when an image-generation request has failed, the image
\* store holds no object for its operation.
C16_FailureLeavesNothing ==
    (/\ req.endpoint = "images_generations"
     /\ pc = "responded"
     /\ resp.status # 200
     /\ operation_id # "")
        => NothingStored

-----------------------------------------------------------------------------

IsUpstreamError(call) == call.status \notin 200..299 \/ call.error

\* C17 as stated: an upstream answer that is not 2xx, or whose body has an
\* error field, ends the request at that call with an error response that
\* carries the upstream's body, and the upstream's status when that is not
\* 2xx.
C17_UpstreamErrorPropagated ==
    \A n \in 1..Len(upstream) :
        IsUpstreamError(upstream[n]) =>
            /\ n = Len(upstream)
            /\ pc = "responded"
            /\ resp.kind = "error"
            /\ resp.detail = <<"upstream">>
            /\ resp.status = IF upstream[n].error THEN 500
                              ELSE upstream[n].status

-----------------------------------------------------------------------------

\* A chat request for which the completion request was sent upstream.
ChatSent == req.endpoint = "chat" /\ upstream # <<>>

\* C18 as stated: the completion request sent upstream for a chat request
\* carries the translation of the request's function tools, in order, and
\* nothing for its other tools.
C18_ToolsForwarded ==
    ChatSent => upstream[1].tools = tools_translation(req.tools)

-----------------------------------------------------------------------------

LegacyCall(message) ==
    [name |-> message.function_call.name,
     arguments |-> message.function_call.arguments]

\* What every reading of the claim asks of the n-th translated message:
\* the role, the text and the tool result.
CarriesRoleTextResult(message, new_message) ==
    /\ new_message.role = message.role
    /\ new_message.text =
          IF message.content \in {Absent, Null} THEN Absent ELSE message.content
    /\ new_message.toolResultList =
          IF message.function_name # Absent /\ message.content # Absent
          THEN [present |-> TRUE, name |-> message.function_name,
                content |-> message.content]
          ELSE NoToolResultList

\* C20 as stated: one translated message per message, in order, with the
\* role, the text, the tool result, and every pending tool invocation of
\* the message, those of tool_calls and the one of function_call, in its
\* tool-call list.
C20_AsStated ==
    ChatSent =>
        LET out == upstream[1].messages IN
        /\ Len(out) = Len(req.messages)
        /\ \A n \in 1..Len(req.messages) :
              LET message == req.messages[n] IN
              /\ CarriesRoleTextResult(message, out[n])
              /\ message.tool_calls.present =>
                    Range(message.tool_calls.calls)
                        \subseteq Range(out[n].toolCallList.toolCalls)
              /\ message.function_call.present =>
                    LegacyCall(message) \in Range(out[n].toolCallList.toolCalls)

\* C20 (amended): one translated message per message, in order, with the
\* role, the text and the tool result; the tool-call list is the calls of
\* tool_calls when the message has tool_calls, the call of function_call
\* when it has function_call and no tool_calls, and is absent otherwise.
C20_MessagesCarried ==
    ChatSent =>
        LET out == upstream[1].messages IN
        /\ Len(out) = Len(req.messages)
        /\ \A n \in 1..Len(req.messages) :
              LET message == req.messages[n] IN
              /\ CarriesRoleTextResult(message, out[n])
              /\ out[n].toolCallList =
                    IF message.tool_calls.present
                    THEN [present |-> TRUE,
                          toolCalls |-> message.tool_calls.calls]
                    ELSE IF message.function_call.present
                    THEN [present |-> TRUE,
                          toolCalls |-> <<LegacyCall(message)>>]
                    ELSE NoToolCallList

C20_Witness ==
    /\ ChatSent
    /\ Len(req.messages) = 2
    /\ req.messages[1].role = "assistant"
    /\ req.messages[1].content = "hi"
    /\ req.messages[1].tool_calls.present
    /\ req.messages[1].function_call.present
    /\ req.messages[1].function_name = "weather_request"
    /\ req.messages[2].role = "user"
    /\ req.messages[2].content = Null
    /\ req.messages[2].function_call.present
    /\ ~req.messages[2].tool_calls.present
    /\ upstream[1].messages[1].text = "hi"
    /\ upstream[1].messages[1].toolCallList.toolCalls[1].name = "weather_request"
    /\ upstream[1].messages[1].toolResultList.present
    /\ upstream[1].messages[2].toolCallList.toolCalls[1].name = "legacy_request"

-----------------------------------------------------------------------------

\* The upstream answered the embedding request with 200 and one object, as
\* the textEmbedding endpoint does.
EmbeddingAnswered ==
    /\ req.endpoint = "embeddings"
    /\ upstream # <<>>
    /\ upstream[1].status = 200
    /\ sent # <<>>
    /\ sent[1].kind = "object"

\* C19 as stated: an embeddings request whose upstream call succeeded is
\* answered 200 with a list of one entry for its one input, with index 0
\* and the upstream's embedding.
C19_OneEntryPerInput ==
    EmbeddingAnswered =>
        /\ resp.status = 200
        /\ resp.kind = "list"
        /\ resp.detail = <<[index |-> 0,
                            embedding |-> sent[1].items[1].embedding]>>

-----------------------------------------------------------------------------

\* C23 as stated: when the last status poll answered done with a response,
\* the request succeeds with that operation's image, whatever the number of
\* that poll and the timeout; the timeout error is given only when the last
\* poll found the operation not completed.
C23_DoneAlwaysCompletes ==
    (Polling /\ pollLog # <<>>) =>
        /\ (Last(pollLog) = "done" /\ pc = "responded" /\ Decodable) =>
              /\ resp.status = 200
              /\ resp.detail = IF req.b64 THEN <<response_data.image>>
                               ELSE FileName(operation_id)
        /\ (pc = "responded" /\ IsTimeout) =>
              Last(pollLog) \in {"pending", "done_no_response"}

-----------------------------------------------------------------------------

\* C24 as stated: however the upstream's bytes were cut into fragments,
\* when the upstream has closed a stream in which each frame's text begins
\* with the text of the frame before it, the emitted deltas concatenated
\* are the text of the last frame the upstream sent.
C24_AnyFragmentation ==
    (StreamClosed /\ EachExtendsPrevious) => Concat(Contents) = LastText

-----------------------------------------------------------------------------

\* Who the caller is: the registry's user, or the account of a BYOK token.
AccountOrUser(c) == IF Truthy(c.user_id) THEN c.user_id ELSE c.catalogid

CredsOf(token) == get_creds(authenticate_user(token))
Admitted == {token \in Tokens : authenticate_user(token).outcome = "ok"}

CarriesHashOf(ident, answer) ==
    /\ answer.id = <<"y2o-", md5(ident), "current_time">>
    /\ answer.system_fingerprint = <<"fp_", md5(ident)>>

\* C22 as stated: the id and the fingerprint of a completion and of every
\* chunk of a stream carry the md5 of the caller's user id or, for a BYOK
\* caller, account; and a caller the gateway admits whose identity is not
\* that of the caller answered would get a different hash part.
C22_HashOfAccountOrUser ==
    /\ (req.endpoint = "chat" /\ resp.kind = "chat.completion") =>
          CarriesHashOf(AccountOrUser(creds), resp)
    /\ IsStream =>
          \A n \in 1..Len(emitted) :
             CarriesHashOf(AccountOrUser(creds), emitted[n])
    /\ (req.endpoint = "chat" /\ resp.status = 200) =>
          \A other \in Admitted :
             AccountOrUser(CredsOf(other)) # AccountOrUser(creds) =>
                userhash(CredsOf(other).user_id) # userhash(creds.user_id)

-----------------------------------------------------------------------------

\* A non-streamed chat request was answered with the translated completion.
ChatAnswered ==
    req.endpoint = "chat" /\ ~req.stream /\ resp.kind = "chat.completion"

\* The entries of the n-th alternative's toolCalls that have a functionCall.
CallsOf(n) == SelectSeq(sent[n].toolCalls, LAMBDA tc : tc.functionCall)

\* C21 as stated: in every translated response the arguments of each tool
\* call are a string: the JSON text of what the upstream sent when that
\* was not a string, the upstream's string unchanged when it was one.
C21_AsStated ==
    ChatAnswered =>
        \A n \in 1..Len(resp.tool_calls) :
           \A m \in 1..Len(resp.tool_calls[n]) :
              LET arguments == CallsOf(n)[m].arguments
                  out == resp.tool_calls[n][m].arguments
              IN /\ out.type = "str"
                 /\ IF arguments.type = "str" THEN out = arguments
                    ELSE json_loads_text(out.v) = Returned(arguments)

\* C21 (amended): each choice has the upstream's function calls in order
\* under their names; arguments that arrive as a JSON object are given as
\* the JSON text of that object and arguments that arrive as a string are
\* given unchanged, so that in both cases they are a string; arguments of
\* another JSON type (an array, null) are given as they arrived.
C21_ObjectArgumentsSerialized ==
    ChatAnswered =>
        /\ Len(resp.tool_calls) = Len(sent)
        /\ \A n \in 1..Len(sent) :
              /\ Len(resp.tool_calls[n]) = Len(CallsOf(n))
              /\ \A m \in 1..Len(CallsOf(n)) :
                    LET arguments == CallsOf(n)[m].arguments
                        new_tool_call == resp.tool_calls[n][m]
                        out == new_tool_call.arguments
                    IN /\ new_tool_call.name = CallsOf(n)[m].name
                       /\ new_tool_call.id[3] = n - 1
                       /\ IF arguments.type = "dict"
                          THEN /\ out.type = "str"
                               /\ json_loads_text(out.v) = Returned(arguments)
                          ELSE out = arguments
                       /\ arguments.type \in {"dict", "str"} => out.type = "str"

C21_Witness ==
    /\ ChatAnswered
    /\ Len(sent) = 2
    /\ sent[2].toolCalls =
          <<[functionCall |-> TRUE, name |-> "weather_request",
             arguments |-> London],
            [functionCall |-> TRUE, name |-> "weather_request",
             arguments |-> Encoded]>>
    /\ resp.tool_calls[2][1].arguments =
          [type |-> "str", v |-> "{\"query\": \"London\"}"]
    /\ resp.tool_calls[2][2].arguments = Encoded

=============================================================================
